---- MODULE Spec2Model ----
(***************************************************************************)
(* Model of src/App.tsx: the composition root of the Payment_Wall single   *)
(* page application.                                                       *)
(*                                                                         *)
(* A string is represented by the sequence of its "/"-separated segments,  *)
(* i.e. by the result of JavaScript's s.split("/"):                        *)
(*      ""               <<"">>                                            *)
(*      "/"              <<"", "">>                                        *)
(*      "/login"         <<"", "login">>                                   *)
(*      "/loan-status/"  <<"", "loan-status", "">>                         *)
(*      "xyz"            <<"xyz">>                                         *)
(* The representation is one-to-one, so JavaScript's === on strings is     *)
(* equality of the sequences.                                              *)
(*                                                                         *)
(* App.tsx delegates route selection to <Routes>/<Route> of                *)
(* react-router-dom (line 6).  The element API used on lines 44-52         *)
(* (Routes, element=) is the version 6 API; its matching algorithm         *)
(* (flattenRoutes, computeScore, rankRouteBranches, matchPath) is modelled *)
(* here as that library computes it: branches are ranked by score, ties    *)
(* are broken by declaration index, and a path pattern is compiled to a    *)
(* case-insensitive regular expression that tolerates trailing slashes.    *)
(* Percent-decoding of the pathname is not modelled: the segments below    *)
(* contain no escapes.                                                     *)
(***************************************************************************)
EXTENDS Integers, Sequences, FiniteSets, TLC

\* Longest string, in segments, that is supplied as a path.
MaxSegs == 3

\* Number of re-renders of App that are explored.
MaxRenders == 2

\* Slash-free pieces of the strings that are explored.
Segment ==
    {"", "login", "questionnaire", "document-upload", "loan-status", "Loan-Status", "xyz"}

\* ASCII lower-casing of a segment (what the "i" flag of RegExp compares).
ToLower(s) ==
    IF s = "Loan-Status" THEN "loan-status" ELSE s

\* Every string of at most n segments drawn from S.
Strings(S, n) == UNION {[1..k -> S] : k \in 1..n}

AllStrings == Strings(Segment, MaxSegs)

\* window.location.pathname always begins with "/".
IsBrowserPath(s) == Len(s) >= 2 /\ s[1] = ""

BrowserPaths == {s \in AllStrings : IsBrowserPath(s)}

PathRoot == <<"", "">>
PathLogin == <<"", "login">>
PathQuestionnaire == <<"", "questionnaire">>
PathDocumentUpload == <<"", "document-upload">>
PathLoanStatus == <<"", "loan-status">>
PathStar == <<"*">>

\* The router's location before <BrowserRouter> is mounted.
NoLocation == <<>>

(***************************************************************************)
(* ConditionalCameraPreview, lines 20-34                                   *)
(***************************************************************************)

\* Variant that normalises the pathname before comparing.
ConditionalCameraPreviewNormalised(pathname) ==
    LET n == [i \in 1..Len(pathname) |-> ToLower(pathname[i])]
        m == IF Len(n) > 2 /\ n[Len(n)] = "" THEN SubSeq(n, 1, Len(n) - 1) ELSE n
    IN  IF m = PathDocumentUpload \/ m = PathRoot \/ m = PathLoanStatus
        THEN "null"
        ELSE "CameraPreview"

\* Variant that omits the loan-status page from the exclusions.
ConditionalCameraPreviewTwo(pathname) ==
    IF pathname = PathDocumentUpload \/ pathname = PathRoot
    THEN "null"
    ELSE "CameraPreview"

\* What the component returns for location.pathname.
ConditionalCameraPreview(pathname) ==
    IF \/ pathname = PathDocumentUpload
       \/ pathname = PathRoot
       \/ pathname = PathLoanStatus
    THEN "null"
    ELSE "CameraPreview"

(***************************************************************************)
(* The route table, lines 44-52                                            *)
(***************************************************************************)

Pages == {"Index", "Login", "Questionnaire", "DocumentUpload", "LoanStatus", "NotFound"}

\* Variant without the catch-all entry.
RouteTableNoCatchAll ==
    << [path |-> PathRoot,           element |-> "Index"],
       [path |-> PathLogin,          element |-> "Login"],
       [path |-> PathQuestionnaire,  element |-> "Questionnaire"],
       [path |-> PathDocumentUpload, element |-> "DocumentUpload"],
       [path |-> PathLoanStatus,     element |-> "LoanStatus"] >>

\* Variant with a second catch-all, declared first.
RouteTableTwoCatchAll ==
    << [path |-> PathStar,           element |-> "NotFound"],
       [path |-> PathRoot,           element |-> "Index"],
       [path |-> PathLogin,          element |-> "Login"],
       [path |-> PathQuestionnaire,  element |-> "Questionnaire"],
       [path |-> PathDocumentUpload, element |-> "DocumentUpload"],
       [path |-> PathLoanStatus,     element |-> "LoanStatus"],
       [path |-> PathStar,           element |-> "NotFound"] >>

\* The children of <Routes>, in declaration order.
RouteTable ==
    << [path |-> PathRoot,           element |-> "Index"],
       [path |-> PathLogin,          element |-> "Login"],
       [path |-> PathQuestionnaire,  element |-> "Questionnaire"],
       [path |-> PathDocumentUpload, element |-> "DocumentUpload"],
       [path |-> PathLoanStatus,     element |-> "LoanStatus"],
       [path |-> PathStar,           element |-> "NotFound"] >>

(***************************************************************************)
(* Route selection by <Routes> (react-router-dom 6, imported on line 6)    *)
(***************************************************************************)

IsSplat(seg) == seg = "*"

\* path.replace(/\/*\*?$/, ""): drop one trailing "*" and the slashes before it.
RECURSIVE StripTrailingSlashes(_)
StripTrailingSlashes(s) ==
    IF Len(s) > 1 /\ s[Len(s)] = ""
    THEN StripTrailingSlashes(SubSeq(s, 1, Len(s) - 1))
    ELSE s

StripSplat(s) ==
    IF IsSplat(s[Len(s)])
    THEN StripTrailingSlashes(IF Len(s) = 1 THEN <<"">> ELSE SubSeq(s, 1, Len(s) - 1) \o <<"">>)
    ELSE StripTrailingSlashes(s)

\* .replace(/^\/*/, "/"): exactly one leading slash.
RECURSIVE DropLeadingSlashes(_)
DropLeadingSlashes(s) ==
    IF Len(s) > 1 /\ s[1] = "" THEN DropLeadingSlashes(Tail(s)) ELSE s

LeadingSlash(s) ==
    IF DropLeadingSlashes(s) = <<"">> THEN <<"", "">> ELSE <<"">> \o DropLeadingSlashes(s)

\* The literal part of the regular expression compilePath builds.
PatternPrefix(pattern) == LeadingSlash(StripSplat(pattern))

\* pathname begins, ignoring case (RegExp flag "i"), with the literal n.
HasPrefix(n, pathname) ==
    /\ Len(pathname) >= Len(n)
    /\ \A i \in 1..Len(n) : ToLower(pathname[i]) = ToLower(n[i])

\* matchPath({path: pattern, caseSensitive: false, end: true}, pathname) # null
\*   "*" and "/*"  compile to  ^/(.*)$
\*   "/a/*"        compiles to ^/a(?:\/(.+)|\/*)$
\*   "/a"          compiles to ^/a\/*$
matchPath(pattern, pathname) ==
    LET n == PatternPrefix(pattern)
    IN  IF IsSplat(pattern[Len(pattern)])
        THEN IF n = <<"", "">>
             THEN Len(pathname) >= 2 /\ pathname[1] = ""
             ELSE HasPrefix(n, pathname)
        ELSE /\ HasPrefix(n, pathname)
             /\ \A i \in (Len(n) + 1)..Len(pathname) : pathname[i] = ""

\* flattenRoutes: joinPaths([parentPath = "", relativePath]).
BranchPath(path) == IF path[1] = "" THEN path ELSE <<"">> \o path

RECURSIVE SegmentScore(_)
SegmentScore(segs) ==
    IF segs = <<>> THEN 0
    ELSE (IF IsSplat(Head(segs)) THEN 0
          ELSE IF Head(segs) = "" THEN 1
          ELSE 10)
         + SegmentScore(Tail(segs))

\* Variant that gives every branch the same score.
computeScoreFlat(path) == 0

\* computeScore(path, index = false); the table has no ":param" segment.
computeScore(path) ==
    Len(path)
    + (IF \E i \in 1..Len(path) : IsSplat(path[i]) THEN -2 ELSE 0)
    + SegmentScore(path)

\* rankRouteBranches: branch i is tried before branch j.
RankedBefore(routes, i, j) ==
    LET si == computeScore(BranchPath(routes[i].path))
        sj == computeScore(BranchPath(routes[j].path))
    IN  si > sj \/ (si = sj /\ i < j)

\* The entries whose pattern matches the pathname.
Matching(routes, pathname) ==
    LET p == IF pathname = <<"">> THEN <<"", "">> ELSE pathname
    IN  {i \in 1..Len(routes) : matchPath(routes[i].path, p)}

\* Variant that renders every matching entry.
matchRoutesAll(routes, pathname) == Matching(routes, pathname)

\* matchRoutes: the first matching branch in ranked order, if any.
matchRoutes(routes, pathname) ==
    LET m == Matching(routes, pathname)
    IN  {i \in m : \A j \in m \ {i} : RankedBefore(routes, i, j)}

(***************************************************************************)
(* App, lines 36-59: the element tree, as child |-> parent                 *)
(***************************************************************************)

Providers ==
    {"QueryClientProvider", "TooltipProvider", "BrowserRouter", "AuthProvider", "LoanProvider"}

\* Variant that places the overlay selector beside <AuthProvider>.
AppOverlayOutside ==
    [n \in {"QueryClientProvider", "TooltipProvider", "Toaster", "Sonner", "BrowserRouter",
            "AuthProvider", "LoanProvider", "Routes", "ConditionalCameraPreview"} |->
        CASE n = "QueryClientProvider"      -> "App"
          [] n = "TooltipProvider"          -> "QueryClientProvider"
          [] n = "Toaster"                  -> "TooltipProvider"
          [] n = "Sonner"                   -> "TooltipProvider"
          [] n = "BrowserRouter"            -> "TooltipProvider"
          [] n = "AuthProvider"             -> "BrowserRouter"
          [] n = "LoanProvider"             -> "AuthProvider"
          [] n = "Routes"                   -> "LoanProvider"
          [] n = "ConditionalCameraPreview" -> "BrowserRouter"]

\* The JSX that App returns, without the children decided at render time.
App ==
    [n \in {"QueryClientProvider", "TooltipProvider", "Toaster", "Sonner", "BrowserRouter",
            "AuthProvider", "LoanProvider", "Routes", "ConditionalCameraPreview"} |->
        CASE n = "QueryClientProvider"      -> "App"
          [] n = "TooltipProvider"          -> "QueryClientProvider"
          [] n = "Toaster"                  -> "TooltipProvider"
          [] n = "Sonner"                   -> "TooltipProvider"
          [] n = "BrowserRouter"            -> "TooltipProvider"
          [] n = "AuthProvider"             -> "BrowserRouter"
          [] n = "LoanProvider"             -> "AuthProvider"
          [] n = "Routes"                   -> "LoanProvider"
          [] n = "ConditionalCameraPreview" -> "LoanProvider"]

\* Variant that constructs a client inside App, on every render.
AppClientFresh(qc, n) == [client |-> n + 1, constructed |-> n + 1]

\* Line 37, client={queryClient}: the module-level instance, nothing constructed.
AppClient(qc, n) == [client |-> qc, constructed |-> n]

\* The elements <Routes> renders for the pathname.
RoutesChildren(routes, pathname) ==
    {routes[i].element : i \in matchRoutes(routes, pathname)}

\* The elements <ConditionalCameraPreview> renders for the pathname.
OverlayChildren(pathname) ==
    IF ConditionalCameraPreview(pathname) = "null" THEN {} ELSE {"CameraPreview"}

\* The mounted tree for a table and a pathname.
Render(routes, pathname) ==
    LET pg == RoutesChildren(routes, pathname)
        ov == OverlayChildren(pathname)
    IN  [n \in DOMAIN App \cup pg \cup ov |->
            IF n \in DOMAIN App THEN App[n]
            ELSE IF n \in pg THEN "Routes"
            ELSE "ConditionalCameraPreview"]

\* Ancestors of a mounted node, outermost first.
RECURSIVE Ancestors(_, _)
Ancestors(t, n) ==
    IF n \notin DOMAIN t THEN <<>> ELSE Ancestors(t, t[n]) \o <<t[n]>>

IsProvider(n) == n \in Providers

ProvidersAround(t, n) == SelectSeq(Ancestors(t, n), IsProvider)

(***************************************************************************)
(* State                                                                   *)
(***************************************************************************)

VARIABLES
    loaded,       \* the module App.tsx has been evaluated
    queryClient,  \* identity of the module-level queryClient (0: not yet bound)
    constructed,  \* number of QueryClient instances constructed so far
    clientProp,   \* the client given to <QueryClientProvider> (0: not rendered)
    location,     \* the router's location.pathname
    to,           \* the path of the last navigation (NoLocation: none yet)
    routes,       \* the table held by the mounted <Routes>
    tree,         \* the mounted element tree, child |-> parent
    decision,     \* what ConditionalCameraPreview returned last
    renders       \* number of re-renders of App

vars == <<loaded, queryClient, constructed, clientProp, location, to, routes, tree,
          decision, renders>>

NoTree == [n \in {} |-> "App"]

mounted == tree # NoTree

\* The page components mounted under <Routes>.
page == {n \in DOMAIN tree : tree[n] = "Routes"}

\* <CameraPreview /> is mounted.
overlay == "CameraPreview" \in DOMAIN tree

Init ==
    /\ loaded = FALSE
    /\ queryClient = 0
    /\ constructed = 0
    /\ clientProp = 0
    /\ location = NoLocation
    /\ to = NoLocation
    /\ routes = <<>>
    /\ tree = NoTree
    /\ decision = "none"
    /\ renders = 0

\* Evaluation of the module: line 17 runs once, then App is defined.
LoadModule ==
    /\ ~loaded
    /\ loaded' = TRUE
    /\ constructed' = constructed + 1
    /\ queryClient' = constructed + 1
    /\ UNCHANGED <<clientProp, location, to, routes, tree, decision, renders>>

\* First render of <App /> with the table t, the browser being at URL path p.
MountTable(t, p) ==
    /\ loaded
    /\ ~mounted
    /\ clientProp' = AppClient(queryClient, constructed).client
    /\ constructed' = AppClient(queryClient, constructed).constructed
    /\ location' = p
    /\ routes' = t
    /\ tree' = Render(t, p)
    /\ decision' = ConditionalCameraPreview(p)
    /\ UNCHANGED <<loaded, queryClient, to, renders>>

Mount(p) == MountTable(RouteTable, p)

\* Variant in which the overlay selector does not follow the location.
NavigateStale(p) ==
    /\ mounted
    /\ location' = p
    /\ to' = p
    /\ tree' = [n \in (DOMAIN Render(routes, p) \ {"CameraPreview"})
                      \cup (DOMAIN tree \cap {"CameraPreview"}) |->
                   IF n = "CameraPreview" THEN "ConditionalCameraPreview"
                   ELSE Render(routes, p)[n]]
    /\ UNCHANGED <<loaded, queryClient, constructed, clientProp, routes, decision, renders>>

\* A navigation to p: the router publishes the location, and <Routes> and
\* <ConditionalCameraPreview> (useLocation, line 21) render again in the same commit.
Navigate(p) ==
    /\ mounted
    /\ location' = p
    /\ to' = p
    /\ tree' = Render(routes, p)
    /\ decision' = ConditionalCameraPreview(p)
    /\ UNCHANGED <<loaded, queryClient, constructed, clientProp, routes, renders>>

\* App renders again at the same location (lines 36-59 are evaluated again).
Rerender ==
    /\ mounted
    /\ renders < MaxRenders
    /\ renders' = renders + 1
    /\ clientProp' = AppClient(queryClient, constructed).client
    /\ constructed' = AppClient(queryClient, constructed).constructed
    /\ tree' = Render(routes, location)
    /\ decision' = ConditionalCameraPreview(location)
    /\ UNCHANGED <<loaded, queryClient, location, to, routes>>

Next ==
    \/ LoadModule
    \/ \E p \in BrowserPaths : Mount(p)
    \/ \E p \in BrowserPaths : Navigate(p)
    \/ Rerender

Spec == Init /\ [][Next]_vars

(***************************************************************************)
(* The overlay selector as a function of an arbitrary string               *)
(***************************************************************************)

InitSelector ==
    /\ loaded = TRUE
    /\ queryClient = 1
    /\ constructed = 1
    /\ clientProp = 0
    /\ location \in AllStrings
    /\ to = NoLocation
    /\ routes = <<>>
    /\ tree = NoTree
    /\ decision = "none"
    /\ renders = 0

\* One evaluation of lines 21-33 with location.pathname = location.
Evaluate ==
    /\ decision = "none"
    /\ decision' = ConditionalCameraPreview(location)
    /\ UNCHANGED <<loaded, queryClient, constructed, clientProp, location, to, routes, tree,
                   renders>>

NextSelector == Evaluate

SpecSelector == InitSelector /\ [][NextSelector]_vars

(***************************************************************************)
(* The table with one more static route, declared at any position          *)
(***************************************************************************)

PathSettings == <<"", "settings">>

NewRoute == [path |-> PathSettings, element |-> "Settings"]

InsertAt(table, k) ==
    SubSeq(table, 1, k - 1) \o <<NewRoute>> \o SubSeq(table, k, Len(table))

TablesWithNewRoute == {InsertAt(RouteTable, k) : k \in 1..(Len(RouteTable) + 1)}

PathsWithNewRoute == {s \in Strings(Segment \cup {"settings"}, MaxSegs) : IsBrowserPath(s)}

\* The first render of App with each such table, at each URL.
NextOrder ==
    \/ LoadModule
    \/ \E t \in TablesWithNewRoute : \E p \in PathsWithNewRoute : MountTable(t, p)

SpecOrder == Init /\ [][NextOrder]_vars

(***************************************************************************)
(* Properties                                                              *)
(***************************************************************************)

Excluded == {PathDocumentUpload, PathRoot, PathLoanStatus}

\* C1: on each of "/document-upload", "/" and "/loan-status" the selector
\* returns null and the camera overlay is not mounted.
C1_ExcludedHidden ==
    (mounted /\ location \in Excluded) => (decision = "null" /\ ~overlay)

C1_Witness ==
    mounted /\ to = PathLoanStatus /\ location = PathLoanStatus /\ decision = "null"

\* C2: for every string that is not exactly one of the three excluded paths
\* (the empty string, near-misses by a trailing slash or by letter case
\* included) the selector returns the overlay; it returns a value for every
\* string.
C2_OthersShown ==
    decision # "none" =>
        /\ decision \in {"null", "CameraPreview"}
        /\ location \notin Excluded => decision = "CameraPreview"
        /\ location \in {<<"">>, <<"", "login">>, <<"", "questionnaire">>, <<"", "xyz">>,
                         <<"", "loan-status", "">>, <<"", "Loan-Status">>}
              => decision = "CameraPreview"

C2_Witness ==
    location = <<"", "loan-status", "">> /\ decision = "CameraPreview"

\* C3: every location renders exactly one page, and each of the five static
\* paths renders its own page, not the fallback.
C3_ExactlyOnePage ==
    mounted =>
        /\ Cardinality(page) = 1
        /\ location = PathRoot => page = {"Index"}
        /\ location = PathLogin => page = {"Login"}
        /\ location = PathQuestionnaire => page = {"Questionnaire"}
        /\ location = PathDocumentUpload => page = {"DocumentUpload"}
        /\ location = PathLoanStatus => page = {"LoanStatus"}

C3_Witness ==
    mounted /\ to = PathQuestionnaire /\ location = PathQuestionnaire /\ page = {"Questionnaire"}

\* No entry other than the catch-all matches the pathname.
Unmatched(pathname) ==
    \A i \in 1..Len(routes) :
        ~IsSplat(routes[i].path[Len(routes[i].path)]) => ~matchPath(routes[i].path, pathname)

\* C4: a path that none of the five static routes matches renders the
\* NotFound page (never nothing), and after a navigation the location is
\* still the path navigated to.
C4_UnmatchedFallback ==
    /\ (mounted /\ Unmatched(location)) => page = {"NotFound"}
    /\ to # NoLocation => location = to

C4_Witness ==
    /\ mounted
    /\ to = <<"", "xyz">>
    /\ location = <<"", "xyz">>
    /\ page = {"NotFound"}

\* C5: one QueryClient is constructed, at module load and before anything is
\* mounted, and every render of App provides that same instance.
C5_SingleQueryClient ==
    /\ ~loaded => (constructed = 0 /\ ~mounted)
    /\ loaded => (constructed = 1 /\ queryClient = 1)
    /\ mounted => clientProp = queryClient

C5_Witness ==
    mounted /\ renders = MaxRenders /\ to # NoLocation /\ clientProp = queryClient

ProviderStack ==
    <<"QueryClientProvider", "TooltipProvider", "BrowserRouter", "AuthProvider", "LoanProvider">>

\* C6: whatever the path, the routed page and the camera overlay are mounted
\* inside the five providers, nested data-cache client, tooltip, router,
\* authentication, loan workflow from the outside in.
C6_InsideProviders ==
    mounted =>
        /\ page # {}
        /\ \A n \in page \cup (DOMAIN tree \cap {"CameraPreview"}) :
              ProvidersAround(tree, n) = ProviderStack

C6_Witness ==
    mounted /\ overlay /\ page = {"Login"}

\* The new route is declared after the catch-all.
DeclaredLate ==
    /\ mounted
    /\ routes[Len(routes)] = NewRoute

C8_OverlayFollowsLocation ==
    /\ [](mounted => (overlay <=> ConditionalCameraPreview(location) = "CameraPreview"))
    /\ [][(overlay' # overlay) => (location' # location)]_vars

C8_Witness ==
    mounted /\ to = PathRoot /\ location = PathRoot /\ ~overlay

CatchAlls == {i \in 1..Len(routes) : routes[i].path = PathStar}

\* C9: the table has exactly one catch-all entry, it is the last entry, and
\* each static route is still selected on its own path.
C9_CatchAllLast ==
    mounted =>
        /\ Cardinality(CatchAlls) = 1
        /\ CatchAlls = {Len(routes)}
        /\ \A i \in 1..Len(routes) \ CatchAlls : matchRoutes(routes, routes[i].path) = {i}

C9_Witness ==
    mounted /\ routes = RouteTable /\ page = {"NotFound"}

\* C10: the overlay is absent exactly when the rendered page is Index,
\* DocumentUpload or LoanStatus.
C10_PageOverlayAgree ==
    mounted => (~overlay <=> (page # {} /\ page \subseteq {"Index", "DocumentUpload", "LoanStatus"}))

====
